---- MODULE Spec2Model ----
(***************************************************************************)
(* Model of the ACP web UI's per-session protocol core                     *)
(* (web-ui/src/App.tsx): the WsManager class (connect, disconnect, send,   *)
(* isOpen, handleMessage, handleUpdates), the App component's session      *)
(* store (setSession, addMessage, showPermission and the handle*           *)
(* callbacks), the persisted session list, and the browser's WebSocket     *)
(* objects with their open/error/close/message events.                     *)
(***************************************************************************)
EXTENDS Naturals, Sequences, FiniteSets

(* ------------------------------ bounds -------------------------------- *)
MaxSessions == 2   \* sessions ever created (ids are never reused)
MaxSockets  == 2   \* WebSocket objects alive at one time
MaxIds      == 3   \* message ids in use at one time
MaxMsgs     == 2   \* messages in the store
MaxLen      == 2   \* text chunks in one message's content
MaxUpdates  == 2   \* updates in one session_update frame
MaxReloads  == 1   \* page reloads

(* ------------------ WebSocket.readyState values ----------------------- *)
CONNECTING == 0
OPEN       == 1
CLOSING    == 2
CLOSED     == 3

(* ------------------------------ values -------------------------------- *)
SessionIds   == 1 .. MaxSessions
WsIds        == 1 .. MaxSockets
None         == "none"             \* undefined
NoWs         == 0                  \* no entry in a Map keyed by session id
NoId         == 0                  \* no message id; activeId null
NoPermission == [requestId |-> None, title |-> None, ws |-> NoWs, msg |-> NoId]
AgentInfos   == {"agentA"}         \* status payload's agentInfo
RemoteIds    == {"r1"}             \* session_created payload's sessionId
RequestIds   == {"q1", "q2"}       \* permission_request payload's requestId
Titles       == {"", "A"}          \* toolCall.title ("": empty or missing)
Updates      ==
    {[type |-> "text_delta", delta |-> "a", text |-> ""],
     [type |-> "text", delta |-> "", text |-> "b"],
     [type |-> "text_delta", delta |-> "", text |-> ""],
     [type |-> "thinking_start", delta |-> "", text |-> ""],
     [type |-> "tool_call", delta |-> "", text |-> ""]}
UpdateSeqs   == UNION {[1 .. n -> Updates] : n \in 0 .. MaxUpdates}

VARIABLES
    sessions,           \* App: useState<Session[]>
    activeId,           \* App: useState<string | null>
    pendingPermission,  \* App: useState<{request, ws} | null>
    isConnected,        \* ChatPanel prop, wsManager.isOpen(...) at the last render
    storage,            \* localStorage[STORAGE_KEY]
    sockets,            \* WsManager.sockets
    thinkingIds,        \* WsManager.thinkingIds
    streamingIds,       \* WsManager.streamingIds
    wsObjs,             \* the WebSocket objects that are still referenced
    timers,             \* pending setTimeout(() => wsManager.connect(s), 50)
    nextSession,        \* number of session ids handed out
    reloads,            \* page reloads so far
    sent,               \* frames handed to ws.send by the last handler
    last,               \* the last handler that ran
    turn                \* history: the updates of the turn in progress

vars == <<sessions, activeId, pendingPermission, isConnected, storage, sockets,
          thinkingIds, streamingIds, wsObjs, timers, nextSession, reloads,
          sent, last, turn>>

(* ------------------------- session records ---------------------------- *)
NewSession(id) ==
    [id |-> id, status |-> "disconnected", sessionId |-> None,
     agentInfo |-> None, messages |-> <<>>]

NewMessage(id, role, content, isThinking, title, status) ==
    [id |-> id, role |-> role, content |-> content, isThinking |-> isThinking,
     title |-> title, status |-> status]

HasSession(ss, id) == \E i \in DOMAIN ss : ss[i].id = id

FindSession(ss, id) == ss[CHOOSE i \in DOMAIN ss : ss[i].id = id]

(* the object spread ({ ...s, k: v }): s with the fields of patch replaced *)
Spread(s, patch) ==
    [k \in DOMAIN s |-> IF k \in DOMAIN patch THEN patch[k] ELSE s[k]]

(* setSession with an updater that spreads fixed fields:
   prev.map((s) => (s.id === id ? { ...s, ...patch } : s)) *)
SetSession(ss, id, patch) ==
    [i \in DOMAIN ss |-> IF ss[i].id = id THEN Spread(ss[i], patch) ELSE ss[i]]

(* mutant: the message is appended to every session, whatever its id *)
AddMessageToAll(ss, id, msg) ==
    [i \in DOMAIN ss |->
       [ss[i] EXCEPT !.messages = Append(ss[i].messages, msg)]]

(* addMessage: append msg to the messages of session id *)
AddMessage(ss, id, msg) ==
    [i \in DOMAIN ss |->
       IF ss[i].id = id
       THEN [ss[i] EXCEPT !.messages = Append(ss[i].messages, msg)]
       ELSE ss[i]]

(* mutant: the filter keeps the message it should drop and drops the rest *)
RemoveMessageInverted(ss, id, mid) ==
    LET Keep(m) == m.id = mid IN
    [i \in DOMAIN ss |->
       IF ss[i].id = id
       THEN [ss[i] EXCEPT !.messages = SelectSeq(ss[i].messages, Keep)]
       ELSE ss[i]]

(* setSession with messages: s.messages.filter((m) => m.id !== mid) *)
RemoveMessage(ss, id, mid) ==
    LET Keep(m) == m.id # mid IN
    [i \in DOMAIN ss |->
       IF ss[i].id = id
       THEN [ss[i] EXCEPT !.messages = SelectSeq(ss[i].messages, Keep)]
       ELSE ss[i]]

(* setSession with messages: s.messages.map((m) =>
   m.id === streamId ? { ...m, content: m.content + delta } : m) *)
AppendDelta(ss, id, streamId, delta) ==
    [i \in DOMAIN ss |->
       IF ss[i].id = id
       THEN [ss[i] EXCEPT !.messages =
               [j \in DOMAIN ss[i].messages |->
                  IF ss[i].messages[j].id = streamId
                  THEN [ss[i].messages[j] EXCEPT
                          !.content = Append(ss[i].messages[j].content, delta)]
                  ELSE ss[i].messages[j]]]
       ELSE ss[i]]

AllMessages(ss) ==
    UNION {{ss[i].messages[j] : j \in DOMAIN ss[i].messages} : i \in DOMAIN ss}

(* makeId(): an id that no message and no handle carries *)
UsedIds(ss, th, st) ==
    {m.id : m \in AllMessages(ss)}
        \cup {th[id] : id \in DOMAIN th} \cup {st[id] : id \in DOMAIN st}
        \cup {pendingPermission.msg}

MakeId(ss, th, st) ==
    LET free == (1 .. MaxIds) \ UsedIds(ss, th, st) IN
    IF free = {} THEN NoId ELSE CHOOSE k \in free : \A j \in free : k <= j

(* ------------------------- persisted store ---------------------------- *)
NoStorage == [present |-> FALSE, list |-> <<>>]   \* getItem returns null

SaveSessions(ss) == [present |-> TRUE, list |-> ss]

LoadSessionsKeepsStatus(raw) == IF ~raw.present THEN <<>> ELSE raw.list

LoadSessions(raw) ==
    IF ~raw.present THEN <<>>
    ELSE [i \in DOMAIN raw.list |-> [raw.list[i] EXCEPT !.status = "disconnected"]]

(* --------------------------- WebSocket objects ------------------------ *)
FreeWs == [owner |-> NoId, readyState |-> CLOSED, closeQueued |-> FALSE]

NewWs(owner) ==
    [owner |-> owner, readyState |-> CONNECTING, closeQueued |-> FALSE]

HasFreeWs(ws) == \E w \in WsIds : ws[w] = FreeWs

AllocWs(ws) == CHOOSE w \in WsIds :
                  ws[w] = FreeWs /\ \A v \in 1 .. w - 1 : ws[v] # FreeWs

(* a socket whose close event has run and that neither the sockets map nor
   the displayed permission request refers to is garbage *)
Collect(ws, sk, pp) ==
    [w \in WsIds |->
       IF /\ ws[w].readyState = CLOSED
          /\ ~ws[w].closeQueued
          /\ pp.ws # w
          /\ \A id \in SessionIds : sk[id] # w
       THEN FreeWs ELSE ws[w]]

(* a frame handed to ws.send; live: the socket was OPEN, so it is transmitted *)
Frame(ws, w, type, arg) ==
    [ws |-> w, type |-> type, arg |-> arg, live |-> ws[w].readyState = OPEN]

(* ws.close(): CONNECTING or OPEN becomes CLOSING, otherwise nothing *)
WsCloseCall(ws, w) ==
    IF ws[w].readyState <= OPEN THEN [ws EXCEPT ![w].readyState = CLOSING]
    ELSE ws

(* ------------------------------ WsManager ----------------------------- *)
(* mutant: the status updater leaves the session as it is *)
SetStatusKeeps(ss, id, st) == ss

SetStatus(ss, id, st) ==
    SetSession(ss, id, [status |-> st])

(* mutant: the updater sets the status and keeps sessionId *)
SetClosedKeepsSessionId(ss, id) == SetSession(ss, id, [status |-> "disconnected"])

(* the updater shared by ws.onclose and a status frame with connected = false *)
SetClosed(ss, id) ==
    SetSession(ss, id, [status |-> "disconnected", sessionId |-> None])

(* mutant: only an OPEN transport counts as existing, an opening one does not *)
ConnectUnlessOpen(id) ==
    IF sockets[id] # NoWs /\ wsObjs[sockets[id]].readyState = OPEN
    THEN [sessions |-> sessions, sockets |-> sockets, wsObjs |-> wsObjs,
          opened |-> FALSE]
    ELSE [sessions |-> SetStatus(sessions, id, "connecting"),
          sockets  |-> [sockets EXCEPT ![id] = AllocWs(wsObjs)],
          wsObjs   |-> [wsObjs EXCEPT ![AllocWs(wsObjs)] = NewWs(id)],
          opened   |-> TRUE]

(* WsManager.connect(session) *)
Connect(id) ==
    IF sockets[id] # NoWs /\ wsObjs[sockets[id]].readyState <= OPEN
    THEN [sessions |-> sessions, sockets |-> sockets, wsObjs |-> wsObjs,
          opened |-> FALSE]
    ELSE [sessions |-> SetStatus(sessions, id, "connecting"),
          sockets  |-> [sockets EXCEPT ![id] = AllocWs(wsObjs)],
          wsObjs   |-> [wsObjs EXCEPT ![AllocWs(wsObjs)] = NewWs(id)],
          opened   |-> TRUE]

(* mutant: the exception of ws.send on a CONNECTING socket is not swallowed,
   so ws.close() is never reached *)
DisconnectThrows(id) ==
    LET w == sockets[id] IN
    IF w = NoWs THEN [wsObjs |-> wsObjs, sent |-> <<>>]
    ELSE IF wsObjs[w].readyState = CONNECTING
         THEN [wsObjs |-> wsObjs, sent |-> <<>>]
         ELSE [wsObjs |-> WsCloseCall(wsObjs, w),
               sent   |-> <<Frame(wsObjs, w, "disconnect", <<>>)>>]

(* WsManager.disconnect(localId): ws.send throws on a CONNECTING socket and
   the exception is swallowed; ws.close() follows in every case *)
Disconnect(id) ==
    LET w == sockets[id] IN
    IF w = NoWs THEN [wsObjs |-> wsObjs, sent |-> <<>>]
    ELSE [wsObjs |-> WsCloseCall(wsObjs, w),
          sent   |-> IF wsObjs[w].readyState = CONNECTING THEN <<>>
                     ELSE <<Frame(wsObjs, w, "disconnect", <<>>)>>]

(* WsManager.isOpen(localId) *)
IsOpen(sk, ws, id) == sk[id] # NoWs /\ ws[sk[id]].readyState = OPEN

(* mutant: send only checks that a transport is registered *)
SendIfRegistered(id, type, arg) ==
    IF sockets[id] = NoWs THEN [ret |-> FALSE, sent |-> <<>>]
    ELSE [ret |-> TRUE, sent |-> <<Frame(wsObjs, sockets[id], type, arg)>>]

(* WsManager.send(localId, data) *)
Send(id, type, arg) ==
    IF ~IsOpen(sockets, wsObjs, id) THEN [ret |-> FALSE, sent |-> <<>>]
    ELSE [ret |-> TRUE, sent |-> <<Frame(wsObjs, sockets[id], type, arg)>>]

(* const delta = (update.delta as string) || (update.text as string) || '' *)
UpdateText(u) ==
    IF u.delta # "" THEN u.delta ELSE IF u.text # "" THEN u.text ELSE ""

(* mutant: the handle is deleted and the placeholder message stays *)
RemoveThinkingKeepsMessage(st, id) ==
    [st EXCEPT !.thinkingIds[id] = NoId]

(* the thinking-indicator removal shared by text deltas and prompt_complete *)
RemoveThinking(st, id) ==
    IF st.thinkingIds[id] # NoId
    THEN [st EXCEPT !.sessions = RemoveMessage(st.sessions, id, st.thinkingIds[id]),
                    !.thinkingIds[id] = NoId,
                    !.render = TRUE]
    ELSE st

(* mutant: the append branch overwrites the streaming message's content *)
ApplyTextDeltaOverwrite(st, id, delta) ==
    LET s1 == RemoveThinking(st, id)
        streamId == s1.streamingIds[id]
        newId == MakeId(s1.sessions, s1.thinkingIds, s1.streamingIds)
    IN  IF streamId # NoId
        THEN [s1 EXCEPT !.sessions =
                           AddMessage(RemoveMessage(s1.sessions, id, streamId), id,
                              NewMessage(streamId, "assistant", <<delta>>,
                                         FALSE, None, None)),
                        !.render = TRUE]
        ELSE [s1 EXCEPT !.sessions =
                           AddMessage(s1.sessions, id,
                              NewMessage(newId, "assistant", <<delta>>,
                                         FALSE, None, None)),
                        !.streamingIds[id] = newId,
                        !.ok = s1.ok /\ newId # NoId,
                        !.render = TRUE]

(* the text_delta / text branch of the loop of handleUpdates *)
ApplyTextDelta(st, id, delta) ==
    LET s1 == RemoveThinking(st, id)
        streamId == s1.streamingIds[id]
        newId == MakeId(s1.sessions, s1.thinkingIds, s1.streamingIds)
    IN  IF streamId # NoId
        THEN [s1 EXCEPT !.sessions = AppendDelta(s1.sessions, id, streamId, delta),
                        !.render = TRUE]
        ELSE [s1 EXCEPT !.sessions =
                           AddMessage(s1.sessions, id,
                              NewMessage(newId, "assistant", <<delta>>,
                                         FALSE, None, None)),
                        !.streamingIds[id] = newId,
                        !.ok = s1.ok /\ newId # NoId,
                        !.render = TRUE]

(* mutant: thinking_start without the thinkingIds.has(localId) test *)
ApplyThinkingStartAlways(st, id) ==
    LET newId == MakeId(st.sessions, st.thinkingIds, st.streamingIds) IN
    [st EXCEPT !.sessions =
                  AddMessage(st.sessions, id,
                     NewMessage(newId, "assistant", <<>>, TRUE, None, None)),
               !.thinkingIds[id] = newId,
               !.ok = st.ok /\ newId # NoId,
               !.render = TRUE]

(* the thinking_start branch of the loop of handleUpdates *)
ApplyThinkingStart(st, id) ==
    LET newId == MakeId(st.sessions, st.thinkingIds, st.streamingIds) IN
    IF st.thinkingIds[id] = NoId
    THEN [st EXCEPT !.sessions =
                       AddMessage(st.sessions, id,
                          NewMessage(newId, "assistant", <<>>, TRUE, None, None)),
                    !.thinkingIds[id] = newId,
                    !.ok = st.ok /\ newId # NoId,
                    !.render = TRUE]
    ELSE st

(* mutant: an update type no branch matches is handled as thinking_start *)
ApplyUpdateDefaultThinking(st, id, u) ==
    IF u.type = "text_delta" \/ u.type = "text"
    THEN IF UpdateText(u) = "" THEN st ELSE ApplyTextDelta(st, id, UpdateText(u))
    ELSE ApplyThinkingStart(st, id)

(* mutant: the text branch without the empty-delta guard *)
ApplyUpdateNoGuard(st, id, u) ==
    IF u.type = "text_delta" \/ u.type = "text"
    THEN ApplyTextDelta(st, id, UpdateText(u))
    ELSE IF u.type = "thinking_start" THEN ApplyThinkingStart(st, id)
    ELSE st

(* one iteration of the loop of handleUpdates *)
ApplyUpdate(st, id, u) ==
    IF u.type = "text_delta" \/ u.type = "text"
    THEN IF UpdateText(u) = "" THEN st ELSE ApplyTextDelta(st, id, UpdateText(u))
    ELSE IF u.type = "thinking_start" THEN ApplyThinkingStart(st, id)
    ELSE st

(* mutant: the loop of handleUpdates runs from the last update to the first *)
RECURSIVE HandleUpdatesBackwards(_, _, _)
HandleUpdatesBackwards(st, id, us) ==
    IF us = <<>> THEN st
    ELSE ApplyUpdate(HandleUpdatesBackwards(st, id, Tail(us)), id, Head(us))

(* WsManager.handleUpdates(localId, updates) *)
RECURSIVE HandleUpdates(_, _, _)
HandleUpdates(st, id, us) ==
    IF us = <<>> THEN st
    ELSE HandleUpdates(ApplyUpdate(st, id, Head(us)), id, Tail(us))

(* the state handleUpdates and prompt_complete work on; render: setSessions
   was called; ok: makeId had an id left within MaxIds *)
AggState ==
    [sessions |-> sessions, thinkingIds |-> thinkingIds,
     streamingIds |-> streamingIds, render |-> FALSE, ok |-> TRUE]

(* mutant: prompt_complete keeps the streaming handle *)
PromptCompleteKeepsStreaming(st, id) ==
    RemoveThinking(st, id)

(* the prompt_complete case of WsManager.handleMessage *)
PromptComplete(st, id) ==
    [RemoveThinking(st, id) EXCEPT !.streamingIds[id] = NoId]

(* ------------------------------ rendering ----------------------------- *)
ActiveSession(ss, act) == act # NoId /\ HasSession(ss, act)

(* isConnected={wsManager.isOpen(activeSession.id)}, evaluated by a render *)
Rendered(ss, act, sk, ws) == ActiveSession(ss, act) /\ IsOpen(sk, ws, act)

(* a handler that set React state: the list is persisted and App re-renders *)
CommitState(ss, act, pp, sk, ws) ==
    /\ sessions' = ss
    /\ storage' = SaveSessions(ss)
    /\ activeId' = act
    /\ pendingPermission' = pp
    /\ isConnected' = Rendered(ss, act, sk, ws)

NoCommitState ==
    UNCHANGED <<sessions, storage, activeId, pendingPermission, isConnected>>

(* history of the turn in progress: the session it belongs to, its message
   list when the turn began, whether a thinking_start opened it, the deltas
   received since, and whether prompt_complete has just closed it. It is
   dropped as soon as anything but the turn's own updates touches the
   session's messages. *)
NoTurn == [sid |-> NoId, base |-> <<>>, think |-> FALSE, acc |-> <<>>,
           done |-> FALSE]

MessagesOf(ss, id) == IF HasSession(ss, id) THEN FindSession(ss, id).messages ELSE <<>>

KeepTurn(ss) ==
    IF /\ turn.sid # NoId
       /\ ~turn.done
       /\ HasSession(ss, turn.sid)
       /\ HasSession(sessions, turn.sid)
       /\ MessagesOf(ss, turn.sid) = MessagesOf(sessions, turn.sid)
    THEN turn ELSE NoTurn

Commit(ss, act, pp, sk, ws) ==
    /\ CommitState(ss, act, pp, sk, ws)
    /\ turn' = KeepTurn(ss)

NoCommit ==
    /\ NoCommitState
    /\ turn' = KeepTurn(sessions)

(* the aggregator is Idle for session id: no handle, no placeholder shown *)
Idle(id) ==
    /\ thinkingIds[id] = NoId
    /\ streamingIds[id] = NoId
    /\ \A j \in DOMAIN MessagesOf(sessions, id) : ~MessagesOf(sessions, id)[j].isThinking

TurnUpdate(tn, u) ==
    IF tn.sid = NoId THEN tn
    ELSE IF u.type = "thinking_start"
         THEN IF tn.acc = <<>> /\ ~tn.think THEN [tn EXCEPT !.think = TRUE] ELSE NoTurn
    ELSE IF u.type \in {"text_delta", "text"} /\ UpdateText(u) # ""
         THEN [tn EXCEPT !.acc = Append(tn.acc, UpdateText(u))]
    ELSE NoTurn

RECURSIVE TurnUpdates(_, _)
TurnUpdates(tn, us) ==
    IF us = <<>> THEN tn ELSE TurnUpdates(TurnUpdate(tn, Head(us)), Tail(us))

TurnStart(id) ==
    IF HasSession(sessions, id) /\ Idle(id)
    THEN [sid |-> id, base |-> MessagesOf(sessions, id), think |-> FALSE,
          acc |-> <<>>, done |-> FALSE]
    ELSE IF turn.sid = id /\ ~turn.done THEN turn ELSE NoTurn

Within(ss) ==
    /\ Cardinality({<<i, j>> \in (DOMAIN ss) \X (1 .. MaxMsgs + 1) :
                       j \in DOMAIN ss[i].messages}) <= MaxMsgs
    /\ \A i \in DOMAIN ss : Len(ss[i].messages) <= MaxMsgs
    /\ \A m \in AllMessages(ss) : Len(m.content) <= MaxLen

Op(op, id) ==
    [op |-> op, sid |-> id, ok |-> FALSE, ws |-> NoWs, rq |-> None,
     us |-> <<>>, agentInfo |-> None]

OpArg(op, id, arg) == Spread(Op(op, id), arg)

(* ------------------------------- Init --------------------------------- *)
Init ==
    /\ sessions = LoadSessions(NoStorage)
    /\ activeId = NoId
    /\ pendingPermission = NoPermission
    /\ isConnected = FALSE
    /\ storage = SaveSessions(LoadSessions(NoStorage))
    /\ sockets = [id \in SessionIds |-> NoWs]
    /\ thinkingIds = [id \in SessionIds |-> NoId]
    /\ streamingIds = [id \in SessionIds |-> NoId]
    /\ wsObjs = [w \in WsIds |-> FreeWs]
    /\ timers = {}
    /\ nextSession = 0
    /\ reloads = 0
    /\ sent = <<>>
    /\ last = Op("init", NoId)
    /\ turn = NoTurn

(* no close event is queued behind an error event: the browser dispatches
   both from one task, so no other handler runs between them *)
Quiet == \A w \in WsIds : ~wsObjs[w].closeQueued

(* --------------------------- session CRUD ----------------------------- *)
(* handleNewSession (sidebar form) *)
HandleNewSession ==
    /\ Quiet
    /\ nextSession < MaxSessions
    /\ LET id == nextSession + 1 IN
       /\ Commit(Append(sessions, NewSession(id)), id, pendingPermission,
                 sockets, wsObjs)
       /\ timers' = timers \cup {id}
       /\ nextSession' = id
       /\ last' = Op("new_session", id)
    /\ sent' = <<>>
    /\ UNCHANGED <<sockets, thinkingIds, streamingIds, wsObjs, reloads>>

(* EmptyState's onNewSession, shown while there is no active session *)
EmptyStateNewSession ==
    /\ Quiet
    /\ ~ActiveSession(sessions, activeId)
    /\ nextSession < MaxSessions
    /\ LET id == nextSession + 1 IN
       /\ Commit(<<NewSession(id)>>, id, pendingPermission, sockets, wsObjs)
       /\ timers' = timers \cup {id}
       /\ nextSession' = id
       /\ last' = Op("empty_new_session", id)
    /\ sent' = <<>>
    /\ UNCHANGED <<sockets, thinkingIds, streamingIds, wsObjs, reloads>>

(* a call of wsManager.connect, from the auto-connect timer or handleConnect *)
DoConnect(id) ==
    /\ Quiet
    /\ \/ sockets[id] # NoWs /\ wsObjs[sockets[id]].readyState <= OPEN
       \/ HasFreeWs(wsObjs)
    /\ LET r == Connect(id) IN
       /\ IF r.opened
          THEN Commit(r.sessions, activeId, pendingPermission, r.sockets, r.wsObjs)
          ELSE NoCommit
       /\ sockets' = r.sockets
       /\ wsObjs' = r.wsObjs
       /\ last' = OpArg("connect", id, [ok |-> r.opened])
    /\ sent' = <<>>
    /\ UNCHANGED <<thinkingIds, streamingIds, nextSession, reloads>>

(* setTimeout(() => wsManager.connect(newSession), 50) fires *)
TimerFire(id) ==
    /\ id \in timers
    /\ timers' = timers \ {id}
    /\ DoConnect(id)

(* handleConnect, behind the sidebar's Reconnect entry *)
HandleConnect(id) ==
    /\ HasSession(sessions, id)
    /\ FindSession(sessions, id).status \in {"disconnected", "error"}
    /\ UNCHANGED timers
    /\ DoConnect(id)

(* handleDisconnect, behind the sidebar's Disconnect entry *)
HandleDisconnect(id) ==
    /\ Quiet
    /\ HasSession(sessions, id)
    /\ FindSession(sessions, id).status \in {"connecting", "connected"}
    /\ LET r == Disconnect(id) IN
       /\ wsObjs' = r.wsObjs
       /\ sent' = r.sent
    /\ last' = OpArg("disconnect", id, [ws |-> sockets[id]])
    /\ NoCommit
    /\ UNCHANGED <<sockets, thinkingIds, streamingIds, timers, nextSession, reloads>>

(* handleDeleteSession *)
HandleDeleteSession(id) ==
    /\ Quiet
    /\ HasSession(sessions, id)
    /\ LET r == Disconnect(id)
           Keep(s) == s.id # id
           remaining == SelectSeq(sessions, Keep)
           act == IF activeId = id
                  THEN IF Len(remaining) > 0 THEN remaining[Len(remaining)].id
                       ELSE NoId
                  ELSE activeId
       IN  /\ wsObjs' = r.wsObjs
           /\ sent' = r.sent
           /\ Commit(remaining, act, pendingPermission, sockets, r.wsObjs)
    /\ last' = Op("delete_session", id)
    /\ UNCHANGED <<sockets, thinkingIds, streamingIds, timers, nextSession, reloads>>

(* handleSelectSession *)
HandleSelectSession(id) ==
    /\ Quiet
    /\ HasSession(sessions, id)
    /\ id # activeId
    /\ Commit(sessions, id, pendingPermission, sockets, wsObjs)
    /\ sent' = <<>>
    /\ last' = Op("select_session", id)
    /\ UNCHANGED <<sockets, thinkingIds, streamingIds, wsObjs, timers,
                   nextSession, reloads>>

(* --------------------------- chat actions ----------------------------- *)
(* mutant: the user message is recorded only when the frame was sent *)
HandleSendPromptIfSent ==
    /\ Quiet
    /\ ActiveSession(sessions, activeId)
    /\ isConnected
    /\ MakeId(sessions, thinkingIds, streamingIds) # NoId
    /\ LET r  == Send(activeId, "prompt", <<"u">>)
           ss == IF r.ret
                 THEN AddMessage(sessions, activeId,
                         NewMessage(MakeId(sessions, thinkingIds, streamingIds),
                                    "user", <<"u">>, FALSE, None, None))
                 ELSE sessions
       IN  /\ Within(ss)
           /\ Commit(ss, activeId, pendingPermission, sockets, wsObjs)
           /\ sent' = r.sent
           /\ last' = OpArg("send_prompt", activeId, [ok |-> r.ret])
    /\ UNCHANGED <<sockets, thinkingIds, streamingIds, wsObjs, timers,
                   nextSession, reloads>>

(* handleSendPrompt, reached through ChatPanel.handleSend *)
HandleSendPrompt ==
    /\ Quiet
    /\ ActiveSession(sessions, activeId)
    /\ isConnected
    /\ MakeId(sessions, thinkingIds, streamingIds) # NoId
    /\ LET r  == Send(activeId, "prompt", <<"u">>)
           ss == AddMessage(sessions, activeId,
                    NewMessage(MakeId(sessions, thinkingIds, streamingIds),
                               "user", <<"u">>, FALSE, None, None))
       IN  /\ Within(ss)
           /\ Commit(ss, activeId, pendingPermission, sockets, wsObjs)
           /\ sent' = r.sent
           /\ last' = OpArg("send_prompt", activeId, [ok |-> r.ret])
    /\ UNCHANGED <<sockets, thinkingIds, streamingIds, wsObjs, timers,
                   nextSession, reloads>>

(* handleCancel, behind the Stop button shown while the last message is the
   thinking placeholder *)
HandleCancel ==
    /\ Quiet
    /\ ActiveSession(sessions, activeId)
    /\ LET ms == FindSession(sessions, activeId).messages IN
       Len(ms) > 0 /\ ms[Len(ms)].isThinking
    /\ LET r == Send(activeId, "cancel", <<>>) IN
       /\ sent' = r.sent
       /\ last' = OpArg("cancel", activeId, [ok |-> r.ret])
    /\ NoCommit
    /\ UNCHANGED <<sockets, thinkingIds, streamingIds, wsObjs, timers,
                   nextSession, reloads>>

(* handleClearMessages, behind the Clear button *)
HandleClearMessages ==
    /\ Quiet
    /\ ActiveSession(sessions, activeId)
    /\ Len(FindSession(sessions, activeId).messages) > 0
    /\ Commit(SetSession(sessions, activeId, [messages |-> <<>>]), activeId,
              pendingPermission, sockets, wsObjs)
    /\ sent' = <<>>
    /\ last' = Op("clear_messages", activeId)
    /\ UNCHANGED <<sockets, thinkingIds, streamingIds, wsObjs, timers,
                   nextSession, reloads>>

(* ----------------------------- permission ----------------------------- *)
(* the setSessions updater of handlePermissionAllow *)
AllowUpdate(ss, title) ==
    [i \in DOMAIN ss |->
       [ss[i] EXCEPT !.messages =
          [j \in DOMAIN ss[i].messages |->
             IF ss[i].messages[j].status = "pending"
                /\ ss[i].messages[j].title = title
             THEN [ss[i].messages[j] EXCEPT !.status = "allowed"]
             ELSE ss[i].messages[j]]]]

(* the setSessions updater of handlePermissionDeny *)
DenyUpdate(ss) ==
    [i \in DOMAIN ss |->
       [ss[i] EXCEPT !.messages =
          [j \in DOMAIN ss[i].messages |->
             IF ss[i].messages[j].status = "pending"
             THEN [ss[i].messages[j] EXCEPT !.status = "denied"]
             ELSE ss[i].messages[j]]]]

(* the body shared by handlePermissionAllow and handlePermissionDeny *)
Resolve(outcome, ss) ==
    /\ Quiet
    /\ ActiveSession(sessions, activeId)
    /\ sent' = <<Frame(wsObjs, pendingPermission.ws, "permission_response",
                       <<pendingPermission.requestId, outcome>>)>>
    /\ wsObjs' = Collect(wsObjs, sockets, NoPermission)
    /\ Commit(ss, activeId, NoPermission, sockets, wsObjs')
    /\ last' = OpArg(outcome, wsObjs[pendingPermission.ws].owner,
                     [rq |-> pendingPermission.requestId])
    /\ UNCHANGED <<sockets, thinkingIds, streamingIds, timers, nextSession, reloads>>

(* handlePermissionAllow *)
HandlePermissionAllow ==
    /\ pendingPermission # NoPermission
    /\ Resolve("allow", AllowUpdate(sessions, pendingPermission.title))

(* handlePermissionDeny *)
HandlePermissionDeny ==
    /\ pendingPermission # NoPermission
    /\ Resolve("deny", DenyUpdate(sessions))

(* ------------------------- transport events --------------------------- *)
Deliverable(w) == wsObjs[w].readyState = OPEN

(* mutant: ws.onopen sets the session's status to connected *)
WsOpenSetsConnected(w) ==
    /\ Quiet
    /\ wsObjs[w].readyState = CONNECTING
    /\ wsObjs' = [wsObjs EXCEPT ![w].readyState = OPEN]
    /\ sent' = <<Frame(wsObjs', w, "connect", <<>>)>>
    /\ last' = Op("open", wsObjs[w].owner)
    /\ Commit(SetStatus(sessions, wsObjs[w].owner, "connected"), activeId,
              pendingPermission, sockets, wsObjs')
    /\ UNCHANGED <<sockets, thinkingIds, streamingIds, timers, nextSession, reloads>>

(* the connection is established: ws.onopen *)
WsOpen(w) ==
    /\ Quiet
    /\ wsObjs[w].readyState = CONNECTING
    /\ wsObjs' = [wsObjs EXCEPT ![w].readyState = OPEN]
    /\ sent' = <<Frame(wsObjs', w, "connect", <<>>)>>
    /\ last' = Op("open", wsObjs[w].owner)
    /\ NoCommit
    /\ UNCHANGED <<sockets, thinkingIds, streamingIds, timers, nextSession, reloads>>

(* the connection fails: the socket is CLOSED, ws.onerror runs and the close
   event is queued behind it *)
WsError(w) ==
    /\ Quiet
    /\ wsObjs[w].readyState # CLOSED
    /\ wsObjs' = [wsObjs EXCEPT ![w].readyState = CLOSED, ![w].closeQueued = TRUE]
    /\ Commit(SetStatus(sessions, wsObjs[w].owner, "error"), activeId,
              pendingPermission, sockets, wsObjs')
    /\ sent' = <<>>
    /\ last' = Op("ws_error", wsObjs[w].owner)
    /\ UNCHANGED <<sockets, thinkingIds, streamingIds, timers, nextSession, reloads>>

(* the connection is closed (after an error, after ws.close(), or by the
   remote side): ws.onclose *)
WsClose(w) ==
    /\ \/ wsObjs[w].closeQueued
       \/ Quiet /\ wsObjs[w].readyState \in {OPEN, CLOSING}
    /\ sockets' = [sockets EXCEPT ![wsObjs[w].owner] = NoWs]
    /\ wsObjs' = Collect([wsObjs EXCEPT ![w].readyState = CLOSED,
                                        ![w].closeQueued = FALSE],
                         sockets', pendingPermission)
    /\ Commit(SetClosed(sessions, wsObjs[w].owner), activeId, pendingPermission,
              sockets', wsObjs')
    /\ sent' = <<>>
    /\ last' = OpArg("ws_close", wsObjs[w].owner, [ws |-> w])
    /\ UNCHANGED <<thinkingIds, streamingIds, timers, nextSession, reloads>>

(* --------------------------- inbound frames --------------------------- *)
(* handleMessage, case 'status' *)
OnStatus(w, connected, agentInfo) ==
    /\ Quiet
    /\ Deliverable(w)
    /\ LET id == wsObjs[w].owner IN
           IF connected
           THEN /\ Commit(SetSession(sessions, id, [status |-> "connected",
                                                    agentInfo |-> agentInfo]),
                          activeId, pendingPermission, sockets, wsObjs)
                /\ sent' = <<Frame(wsObjs, w, "new_session", <<>>)>>
                /\ last' = OpArg("status", id, [ok |-> TRUE,
                                               agentInfo |-> agentInfo, ws |-> w])
           ELSE /\ Commit(SetClosed(sessions, id), activeId, pendingPermission,
                          sockets, wsObjs)
                /\ sent' = <<>>
                /\ last' = OpArg("status", id, [ok |-> FALSE,
                                               agentInfo |-> agentInfo, ws |-> w])
    /\ UNCHANGED <<sockets, thinkingIds, streamingIds, wsObjs, timers,
                   nextSession, reloads>>

(* handleMessage, case 'session_created' *)
OnSessionCreated(w, rid) ==
    /\ Quiet
    /\ Deliverable(w)
    /\ LET id == wsObjs[w].owner
       IN  /\ Commit(SetSession(sessions, id, [sessionId |-> rid]), activeId,
                     pendingPermission, sockets, wsObjs)
           /\ last' = OpArg("session_created", id, [ws |-> w])
    /\ sent' = <<>>
    /\ UNCHANGED <<sockets, thinkingIds, streamingIds, wsObjs, timers,
                   nextSession, reloads>>

(* handleMessage, case 'session_update' *)
OnSessionUpdate(w, us) ==
    /\ Quiet
    /\ Deliverable(w)
    /\ LET id == wsObjs[w].owner
           r  == HandleUpdates(AggState, id, us)
       IN  /\ r.ok
           /\ Within(r.sessions)
           /\ IF r.render
              THEN CommitState(r.sessions, activeId, pendingPermission, sockets, wsObjs)
              ELSE NoCommitState
           /\ thinkingIds' = r.thinkingIds
           /\ streamingIds' = r.streamingIds
           /\ last' = OpArg("session_update", id, [us |-> us])
           /\ turn' = IF us = <<>> THEN KeepTurn(sessions)
                      ELSE TurnUpdates(TurnStart(id), us)
    /\ sent' = <<>>
    /\ UNCHANGED <<sockets, wsObjs, timers, nextSession, reloads>>

(* handleMessage, case 'permission_request' *)
OnPermissionRequest(w, rq, title) ==
    /\ Quiet
    /\ Deliverable(w)
    /\ MakeId(sessions, thinkingIds, streamingIds) # NoId
    /\ LET id == wsObjs[w].owner
           pp == [requestId |-> rq, title |-> title, ws |-> w,
                  msg |-> IF HasSession(sessions, id)
                          THEN MakeId(sessions, thinkingIds, streamingIds)
                          ELSE NoId]
           ss == AddMessage(sessions, id,
                    NewMessage(MakeId(sessions, thinkingIds, streamingIds), "tool",
                               <<IF title = "" THEN "Tool call" ELSE title>>,
                               FALSE,
                               IF title = "" THEN "Permission Required" ELSE title,
                               "pending"))
       IN  /\ Within(ss)
           /\ wsObjs' = Collect(wsObjs, sockets, pp)
           /\ Commit(ss, activeId, pp, sockets, wsObjs')
           /\ last' = OpArg("permission_request", id, [rq |-> rq])
    /\ sent' = <<>>
    /\ UNCHANGED <<sockets, thinkingIds, streamingIds, timers, nextSession, reloads>>

(* handleMessage, case 'prompt_complete' *)
OnPromptComplete(w) ==
    /\ Quiet
    /\ Deliverable(w)
    /\ LET id == wsObjs[w].owner
           r  == PromptComplete(AggState, id)
       IN  /\ IF r.render
              THEN CommitState(r.sessions, activeId, pendingPermission, sockets, wsObjs)
              ELSE NoCommitState
           /\ thinkingIds' = r.thinkingIds
           /\ streamingIds' = r.streamingIds
           /\ last' = Op("prompt_complete", id)
           /\ turn' = IF turn.sid = id /\ ~turn.done /\ turn.acc # <<>>
                      THEN [turn EXCEPT !.done = TRUE] ELSE NoTurn
    /\ sent' = <<>>
    /\ UNCHANGED <<sockets, wsObjs, timers, nextSession, reloads>>

(* mutant: the error frame also sets the session's status to error *)
OnErrorFrameSetsStatus(w) ==
    /\ Quiet
    /\ Deliverable(w)
    /\ MakeId(sessions, thinkingIds, streamingIds) # NoId
    /\ LET id == wsObjs[w].owner
           ss == AddMessage(sessions, id,
                    NewMessage(MakeId(sessions, thinkingIds, streamingIds),
                               "system", <<"Error: ", "boom">>, FALSE, None, None))
       IN  /\ Within(ss)
           /\ Commit(SetStatus(ss, id, "error"), activeId, pendingPermission,
                     sockets, wsObjs)
           /\ last' = Op("error_frame", id)
    /\ sent' = <<>>
    /\ UNCHANGED <<sockets, thinkingIds, streamingIds, wsObjs, timers,
                   nextSession, reloads>>

(* handleMessage, case 'error' *)
OnErrorFrame(w) ==
    /\ Quiet
    /\ Deliverable(w)
    /\ MakeId(sessions, thinkingIds, streamingIds) # NoId
    /\ LET id == wsObjs[w].owner
           ss == AddMessage(sessions, id,
                    NewMessage(MakeId(sessions, thinkingIds, streamingIds),
                               "system", <<"Error: ", "boom">>, FALSE, None, None))
       IN  /\ Within(ss)
           /\ Commit(ss, activeId, pendingPermission, sockets, wsObjs)
           /\ last' = Op("error_frame", id)
    /\ sent' = <<>>
    /\ UNCHANGED <<sockets, thinkingIds, streamingIds, wsObjs, timers,
                   nextSession, reloads>>

(* mutant: the exception of JSON.parse is not caught and the failure of
   the handler tears the connection down; an unmatched type does the same *)
OnIgnoredFrameCloses(w, kind) ==
    /\ Quiet
    /\ Deliverable(w)
    /\ wsObjs' = [wsObjs EXCEPT ![w].readyState = CLOSING]
    /\ last' = OpArg(kind, wsObjs[w].owner, [ws |-> w])
    /\ sent' = <<>>
    /\ NoCommit
    /\ UNCHANGED <<sockets, thinkingIds, streamingIds, timers, nextSession, reloads>>

(* handleMessage with a type no case matches; or JSON.parse throws in
   ws.onmessage and the exception is caught *)
OnIgnoredFrame(w, kind) ==
    /\ Quiet
    /\ Deliverable(w)
    /\ last' = OpArg(kind, wsObjs[w].owner, [ws |-> w])
    /\ sent' = <<>>
    /\ NoCommit
    /\ UNCHANGED <<sockets, thinkingIds, streamingIds, wsObjs, timers,
                   nextSession, reloads>>

(* ------------------------------ reload -------------------------------- *)
(* the page is loaded again: App and WsManager are constructed anew from
   the persisted list, and the previous page's sockets are gone *)
Reload ==
    /\ Quiet
    /\ reloads < MaxReloads
    /\ reloads' = reloads + 1
    /\ LET loaded == LoadSessions(storage) IN
       /\ sessions' = loaded
       /\ storage' = SaveSessions(loaded)
       /\ activeId' = IF Len(loaded) > 0 THEN loaded[1].id ELSE NoId
    /\ pendingPermission' = NoPermission
    /\ isConnected' = FALSE
    /\ sockets' = [id \in SessionIds |-> NoWs]
    /\ thinkingIds' = [id \in SessionIds |-> NoId]
    /\ streamingIds' = [id \in SessionIds |-> NoId]
    /\ wsObjs' = [w \in WsIds |-> FreeWs]
    /\ timers' = {}
    /\ sent' = <<>>
    /\ last' = Op("reload", NoId)
    /\ turn' = NoTurn
    /\ UNCHANGED nextSession

(* ------------------------------- Next --------------------------------- *)
SessionActions ==
    \/ HandleNewSession
    \/ EmptyStateNewSession
    \/ \E id \in SessionIds : HandleDeleteSession(id)
    \/ \E id \in SessionIds : HandleSelectSession(id)

ConnectionActions ==
    \/ \E id \in SessionIds : TimerFire(id)
    \/ \E id \in SessionIds : HandleConnect(id)
    \/ \E id \in SessionIds : HandleDisconnect(id)
    \/ \E w \in WsIds : WsOpen(w)
    \/ \E w \in WsIds : WsError(w)

HandshakeFrames ==
    \/ \E w \in WsIds, c \in BOOLEAN, a \in AgentInfos : OnStatus(w, c, a)
    \/ \E w \in WsIds, r \in RemoteIds : OnSessionCreated(w, r)

StreamFrames ==
    \/ \E w \in WsIds, us \in UpdateSeqs : OnSessionUpdate(w, us)
    \/ \E w \in WsIds : OnPromptComplete(w)

PermissionActions ==
    \/ \E w \in WsIds, q \in RequestIds, t \in Titles : OnPermissionRequest(w, q, t)
    \/ HandlePermissionAllow
    \/ HandlePermissionDeny

OtherFrames ==
    \/ \E w \in WsIds : OnErrorFrame(w)
    \/ \E w \in WsIds, k \in {"unknown_frame", "parse_error"} : OnIgnoredFrame(w, k)

(* the whole program *)
Next ==
    \/ SessionActions
    \/ ConnectionActions
    \/ HandshakeFrames
    \/ StreamFrames
    \/ PermissionActions
    \/ OtherFrames
    \/ HandleSendPrompt
    \/ HandleCancel
    \/ HandleClearMessages
    \/ Reload
    \/ \E w \in WsIds : WsClose(w)

Spec == Init /\ [][Next]_vars

(* the connection lifecycle of one session at a time: session creation and
   removal, connect and disconnect, the transport events, the handshake
   frames, prompts and the reload *)
NextConn ==
    \/ EmptyStateNewSession
    \/ \E id \in SessionIds : HandleDeleteSession(id)
    \/ ConnectionActions
    \/ HandshakeFrames
    \/ HandleSendPrompt
    \/ Reload
    \/ \E w \in WsIds : WsClose(w)

SpecConn == Init /\ [][NextConn]_vars

(* the sidebar's Reconnect and Disconnect entries used once the auto-connect
   timer of the session has fired *)
LateConnect(id) == timers = {} /\ HandleConnect(id)

LateDisconnect(id) == timers = {} /\ HandleDisconnect(id)

(* the stream aggregator of one session at a time: connection churn after the
   auto-connect, the session_update and prompt_complete frames, cancel, clear
   and the reload *)
NextStream ==
    \/ EmptyStateNewSession
    \/ \E id \in SessionIds : TimerFire(id)
    \/ \E id \in SessionIds : LateConnect(id)
    \/ \E id \in SessionIds : LateDisconnect(id)
    \/ \E w \in WsIds : WsOpen(w)
    \/ \E w \in WsIds : WsError(w)
    \/ StreamFrames
    \/ \E w \in WsIds, k \in {"unknown_frame", "parse_error"} : OnIgnoredFrame(w, k)
    \/ HandleCancel
    \/ HandleClearMessages
    \/ Reload
    \/ \E w \in WsIds : WsClose(w)

SpecStream == Init /\ [][NextStream]_vars

(* the inbound frames of a connected session: handshake, stream and error
   frames after the auto-connect *)
NextFrames ==
    \/ EmptyStateNewSession
    \/ \E id \in SessionIds : TimerFire(id)
    \/ \E w \in WsIds : WsOpen(w)
    \/ HandshakeFrames
    \/ StreamFrames
    \/ \E w \in WsIds : OnErrorFrame(w)
    \/ \E w \in WsIds : WsClose(w)

SpecFrames == Init /\ [][NextFrames]_vars

(* two sessions side by side: both connect, and frames, errors and closes
   of their transports interleave *)
NextTwo ==
    \/ HandleNewSession
    \/ \E id \in SessionIds : TimerFire(id)
    \/ \E w \in WsIds : WsOpen(w)
    \/ \E w \in WsIds : WsError(w)
    \/ \E w \in WsIds, a \in AgentInfos : OnStatus(w, TRUE, a)
    \/ \E w \in WsIds, u \in Updates : OnSessionUpdate(w, <<u>>)
    \/ \E w \in WsIds : OnPromptComplete(w)
    \/ \E w \in WsIds : OnErrorFrame(w)
    \/ \E w \in WsIds : WsClose(w)

SpecTwo == Init /\ [][NextTwo]_vars

(* ---------------- frames that parse but lack their payload ------------- *)
(* the displayed request after onPermission(undefined, ws):
   { request: undefined, ws } *)
UndefinedRequest(w) == [requestId |-> None, title |-> None, ws |-> w, msg |-> NoId]

(* ChatPanel renders <PermissionDialog request={undefined}> for the active
   session; request.toolCall throws in the render, no error boundary catches
   it and React unmounts the application *)
RenderFailed ==
    /\ pendingPermission.ws # NoWs
    /\ pendingPermission.title = None
    /\ ActiveSession(sessions, activeId)

(* handleMessage, case 'status' or 'session_update', msg.payload undefined:
   p.connected or p.updates throws before anything is done; ws.onmessage
   catches the exception *)
OnNoPayloadFrame(w, kind) ==
    /\ ~RenderFailed
    /\ OnIgnoredFrame(w, kind)

(* handleMessage, case 'permission_request', msg.payload undefined:
   this.onPermission(p, ws) has run when p.toolCall throws; onAddMessage is
   not reached; ws.onmessage catches the exception *)
OnPermissionRequestNoPayload(w) ==
    /\ ~RenderFailed
    /\ Quiet
    /\ Deliverable(w)
    /\ wsObjs' = Collect(wsObjs, sockets, UndefinedRequest(w))
    /\ Commit(sessions, activeId, UndefinedRequest(w), sockets, wsObjs')
    /\ last' = OpArg("permission_request_no_payload", wsObjs[w].owner, [ws |-> w])
    /\ sent' = <<>>
    /\ UNCHANGED <<sockets, thinkingIds, streamingIds, timers, nextSession, reloads>>

(* handleMessage, case 'session_update', payload.updates = [...us, null]:
   the loop of handleUpdates has handled us when update.type throws on the
   null element; ws.onmessage catches the exception *)
OnSessionUpdateNullItem(w, us) ==
    /\ ~RenderFailed
    /\ Quiet
    /\ Deliverable(w)
    /\ LET id == wsObjs[w].owner
           r  == HandleUpdates(AggState, id, us)
       IN  /\ r.ok
           /\ Within(r.sessions)
           /\ IF r.render
              THEN CommitState(r.sessions, activeId, pendingPermission, sockets, wsObjs)
              ELSE NoCommitState
           /\ thinkingIds' = r.thinkingIds
           /\ streamingIds' = r.streamingIds
           /\ last' = OpArg("session_update_null_item", id, [us |-> us])
           /\ turn' = IF us = <<>> THEN KeepTurn(sessions)
                      ELSE TurnUpdates(TurnStart(id), us)
    /\ sent' = <<>>
    /\ UNCHANGED <<sockets, wsObjs, timers, nextSession, reloads>>

NextPayload ==
    \/ ~RenderFailed /\ EmptyStateNewSession
    \/ \E id \in SessionIds : ~RenderFailed /\ TimerFire(id)
    \/ \E w \in WsIds : ~RenderFailed /\ WsOpen(w)
    \/ \E w \in WsIds, a \in AgentInfos : ~RenderFailed /\ OnStatus(w, TRUE, a)
    \/ \E w \in WsIds, us \in UpdateSeqs : ~RenderFailed /\ OnSessionUpdate(w, us)
    \/ \E w \in WsIds : ~RenderFailed /\ OnPromptComplete(w)
    \/ \E w \in WsIds, k \in {"status_no_payload", "session_update_no_payload"} :
          OnNoPayloadFrame(w, k)
    \/ \E w \in WsIds : OnPermissionRequestNoPayload(w)
    \/ \E w \in WsIds, us \in UpdateSeqs : OnSessionUpdateNullItem(w, us)
    \/ \E w \in WsIds : ~RenderFailed /\ WsClose(w)

SpecPayload == Init /\ [][NextPayload]_vars

(* permission requests across sessions *)
NextPerm ==
    \/ SessionActions
    \/ \E id \in SessionIds : TimerFire(id)
    \/ \E id \in SessionIds : HandleDisconnect(id)
    \/ \E w \in WsIds : WsOpen(w)
    \/ PermissionActions
    \/ HandleClearMessages
    \/ \E w \in WsIds : WsClose(w)

SpecPerm == Init /\ [][NextPerm]_vars

(* ============================== claims ================================ *)
HasThinking(ms) == \E j \in DOMAIN ms : ms[j].isThinking

ThinkingCount(ms) == Cardinality({j \in DOMAIN ms : ms[j].isThinking})

(* C1: from an Idle session, an optional thinking_start, then one or more
   non-empty text deltas, then prompt_complete leave the session's list as it
   was at the start plus exactly one assistant message whose content is the
   deltas in arrival order, and no thinking placeholder. *)
C1_TurnYieldsOneMessage ==
    turn.done =>
        LET ms == MessagesOf(sessions, turn.sid)
            n  == Len(turn.base)
        IN  /\ HasSession(sessions, turn.sid)
            /\ Len(ms) = n + 1
            /\ SubSeq(ms, 1, n) = turn.base
            /\ ms[n + 1].role = "assistant"
            /\ ms[n + 1].content = turn.acc
            /\ ~HasThinking(ms)

C1_Witness ==
    /\ turn.done
    /\ turn.think
    /\ turn.acc = <<"a", "b">>
    /\ last.op = "prompt_complete"

(* C2: in every reachable state, every session's message list holds at most
   one message with isThinking = TRUE. *)
C2_AtMostOneThinking ==
    \A i \in DOMAIN sessions : ThinkingCount(sessions[i].messages) <= 1

(* C3: in every reachable state, a session's sessionId is defined only while
   its status is connected. *)
C3_RemoteIdOnlyWhileConnected ==
    \A i \in DOMAIN sessions :
        sessions[i].sessionId # None => sessions[i].status = "connected"

(* C4: a connect call for a session whose registered transport is opening or
   open opens no transport, leaves the session list (so every status) as it
   is, and sends no frame. *)
C4_ConnectIdempotent ==
    [][(/\ last'.op = "connect"
        /\ sockets[last'.sid] # NoWs
        /\ wsObjs[sockets[last'.sid]].readyState \in {CONNECTING, OPEN})
       => /\ sessions' = sessions
          /\ sockets' = sockets
          /\ wsObjs' = wsObjs
          /\ sent' = <<>>]_vars

C4_Witness ==
    /\ last.op = "connect"
    /\ ~last.ok
    /\ sockets[last.sid] # NoWs
    /\ wsObjs[sockets[last.sid]].readyState = CONNECTING
    /\ FindSession(sessions, last.sid).status = "connecting"

(* C5: disconnect on a session with a registered transport closes that
   transport, whether the disconnect frame could be sent (transport open) or
   the send failed (transport still opening); and every processed close leaves
   the session with status disconnected and no sessionId. *)
C5_DisconnectCloses ==
    [][/\ (last'.op = "disconnect" /\ last'.ws # NoWs)
          => /\ wsObjs'[last'.ws].readyState \in {CLOSING, CLOSED}
             /\ wsObjs[last'.ws].readyState = CONNECTING => sent' = <<>>
             /\ wsObjs[last'.ws].readyState = OPEN
                   => /\ Len(sent') = 1
                      /\ sent'[1].type = "disconnect"
                      /\ sent'[1].ws = last'.ws
       /\ (last'.op = "ws_close" /\ HasSession(sessions, last'.sid))
          => /\ wsObjs'[last'.ws].readyState = CLOSED
             /\ FindSession(sessions', last'.sid).status = "disconnected"
             /\ FindSession(sessions', last'.sid).sessionId = None]_vars

C5_Witness ==
    /\ last.op = "disconnect"
    /\ last.ws # NoWs
    /\ sent = <<>>
    /\ wsObjs[last.ws].readyState = CLOSING
    /\ FindSession(sessions, last.sid).status = "connecting"

(* C6: send returns TRUE exactly when the session has a registered transport
   in the OPEN state, and then hands exactly one frame to that transport;
   otherwise it returns FALSE and hands over no frame; in both cases the
   transport map, the transports and every session's status are unchanged. *)
C6_SendReturnsOpen ==
    [][last'.op \in {"send_prompt", "cancel"}
       => LET id   == last'.sid
              open == sockets[id] # NoWs /\ wsObjs[sockets[id]].readyState = OPEN
          IN  /\ last'.ok = open
              /\ open => /\ Len(sent') = 1
                         /\ sent'[1].ws = sockets[id]
                         /\ sent'[1].live
              /\ ~open => sent' = <<>>
              /\ sockets' = sockets
              /\ wsObjs' = wsObjs
              /\ DOMAIN sessions' = DOMAIN sessions
              /\ \A i \in DOMAIN sessions :
                    sessions'[i].status = sessions[i].status]_vars

C6_Witness ==
    /\ last.op = "send_prompt"
    /\ ~last.ok
    /\ sockets[last.sid] # NoWs
    /\ wsObjs[sockets[last.sid]].readyState = CLOSING
    /\ sent = <<>>

(* C7: a permission_request frame appends exactly one pending tool message to
   the receiving session; resolving the displayed request with allow (deny)
   gives the message appended for it the status allowed (denied), hands exactly
   one permission_response frame with the request's requestId and the outcome
   to the transport that delivered the request, and clears the displayed
   request. *)
C7_PermissionResolved ==
    [][/\ (last'.op = "permission_request" /\ HasSession(sessions, last'.sid))
          => LET ms == MessagesOf(sessions, last'.sid)
                 ns == MessagesOf(sessions', last'.sid)
             IN  /\ Len(ns) = Len(ms) + 1
                 /\ SubSeq(ns, 1, Len(ms)) = ms
                 /\ ns[Len(ns)].role = "tool"
                 /\ ns[Len(ns)].status = "pending"
       /\ last'.op \in {"allow", "deny"}
          => /\ Len(sent') = 1
             /\ sent'[1].type = "permission_response"
             /\ sent'[1].ws = pendingPermission.ws
             /\ sent'[1].arg = <<pendingPermission.requestId, last'.op>>
             /\ pendingPermission' = NoPermission
             /\ \A i \in DOMAIN sessions : \A j \in DOMAIN sessions[i].messages :
                   sessions[i].messages[j].id = pendingPermission.msg
                   => sessions'[i].messages[j].status =
                         (IF last'.op = "allow" THEN "allowed" ELSE "denied")]_vars

(* C8: a reconnect after a disconnect starts from status disconnected and
   gives status connecting; the status becomes connected from connecting; the
   processed close leaves no sessionId, and a sessionId appears only through a
   session_created frame delivered by the session's registered transport. *)
C8_DisconnectThenReconnect ==
    [][\A i \in DOMAIN sessions : \A k \in DOMAIN sessions' :
          sessions'[k].id = sessions[i].id
          => LET s == sessions[i]
                 n == sessions'[k]
             IN  /\ (last'.op = "ws_close" /\ last'.sid = s.id)
                    => n.status = "disconnected" /\ n.sessionId = None
                 /\ (last'.op = "connect" /\ last'.sid = s.id /\ last'.ok)
                    => /\ s.status = "disconnected"
                       /\ n.status = "connecting"
                       /\ n.sessionId = s.sessionId
                 /\ (s.sessionId = None /\ n.sessionId # None)
                    => /\ last'.op = "session_created"
                       /\ last'.sid = s.id
                       /\ sockets[s.id] = last'.ws]_vars

OnlyThinkingStart(us) ==
    us # <<>> /\ \A k \in DOMAIN us : us[k].type = "thinking_start"

(* C9: a session_update frame made of thinking_start updates only changes
   nothing when the session already has a thinking handle, and otherwise
   appends exactly one placeholder (isThinking, empty content), however many
   thinking_start updates it carries. *)
C9_ThinkingStartOnce ==
    [][(/\ last'.op = "session_update"
        /\ OnlyThinkingStart(last'.us)
        /\ HasSession(sessions, last'.sid))
       => LET id == last'.sid
              ms == MessagesOf(sessions, id)
              ns == MessagesOf(sessions', id)
          IN  IF thinkingIds[id] # NoId
              THEN /\ sessions' = sessions
                   /\ thinkingIds' = thinkingIds
                   /\ streamingIds' = streamingIds
              ELSE /\ Len(ns) = Len(ms) + 1
                   /\ SubSeq(ns, 1, Len(ms)) = ms
                   /\ ns[Len(ns)].isThinking
                   /\ ns[Len(ns)].content = <<>>
                   /\ thinkingIds'[id] = ns[Len(ns)].id]_vars

C9_Witness ==
    /\ last.op = "session_update"
    /\ Len(last.us) = 2
    /\ OnlyThinkingStart(last.us)
    /\ ThinkingCount(MessagesOf(sessions, last.sid)) = 1
    /\ thinkingIds[last.sid] # NoId

(* C10: a status frame with connected = TRUE gives the session status
   connected and the frame's agentInfo and hands exactly one new_session frame
   to the transport that delivered it; with connected = FALSE it gives status
   disconnected and no sessionId, and no frame is sent. *)
C10_StatusFrame ==
    [][(last'.op = "status" /\ HasSession(sessions, last'.sid))
       => LET n == FindSession(sessions', last'.sid) IN
          IF last'.ok
          THEN /\ n.status = "connected"
               /\ n.agentInfo = last'.agentInfo
               /\ Len(sent') = 1
               /\ sent'[1].type = "new_session"
               /\ sent'[1].ws = last'.ws
               /\ sent'[1].live
          ELSE /\ n.status = "disconnected"
               /\ n.sessionId = None
               /\ sent' = <<>>]_vars

C10_Witness ==
    /\ last.op = "status"
    /\ last.ok
    /\ HasSession(sessions, last.sid)
    /\ FindSession(sessions, last.sid).status = "connected"
    /\ FindSession(sessions, last.sid).agentInfo = "agentA"
    /\ Len(sent) = 1

(* what a discarded frame leaves alone: the session list, the persisted list,
   the displayed permission request, the transport map, the transports and the
   aggregator's handles *)
NoEffect ==
    /\ sessions' = sessions
    /\ storage' = storage
    /\ activeId' = activeId
    /\ pendingPermission' = pendingPermission
    /\ sockets' = sockets
    /\ wsObjs' = wsObjs
    /\ thinkingIds' = thinkingIds
    /\ streamingIds' = streamingIds
    /\ sent' = <<>>

(* C11: a frame that fails to parse changes neither the session list, nor the
   transport map, nor the transport (it stays registered as it was and OPEN),
   nor the aggregator's handles, nor the displayed permission request;
   the transport is OPEN afterwards, which is all a later frame needs to be
   delivered. *)
C11_ParseErrorDiscarded ==
    [][last'.op = "parse_error"
       => /\ NoEffect
          /\ wsObjs'[last'.ws].readyState = OPEN]_vars

C11_Witness ==
    /\ last.op = "parse_error"
    /\ sockets[last.sid] = last.ws
    /\ wsObjs[last.ws].readyState = OPEN
    /\ thinkingIds[last.sid] # NoId
    /\ HasThinking(MessagesOf(sessions, last.sid))

Recognized(u) == u.type \in {"text_delta", "text", "thinking_start"}

(* C12: a frame of an unrecognized type changes nothing and sends nothing; a
   session_update whose entries are all of unrecognized type does the same;
   and in a mixed session_update the unrecognized entries do not count: the
   result is that of the recognized entries alone. *)
C12_UnknownIsNoOp ==
    [][/\ last'.op = "unknown_frame"
          => NoEffect /\ wsObjs'[last'.ws].readyState = OPEN
       /\ last'.op = "session_update"
          => LET r == HandleUpdates(AggState, last'.sid,
                                    SelectSeq(last'.us, Recognized))
             IN  /\ sessions' = r.sessions
                 /\ thinkingIds' = r.thinkingIds
                 /\ streamingIds' = r.streamingIds
                 /\ sent' = <<>>
                 /\ wsObjs' = wsObjs
                 /\ sockets' = sockets
                 /\ SelectSeq(last'.us, Recognized) = <<>> => NoEffect]_vars

C12_Witness ==
    /\ last.op = "session_update"
    /\ Len(last.us) = 2
    /\ ~Recognized(last.us[1])
    /\ last.us[2].type = "thinking_start"
    /\ HasThinking(MessagesOf(sessions, last.sid))

(* C13: while a permission request is displayed, a further permission_request
   frame, from any session, does not change the displayed request. *)
C13_PermissionSingleSlot ==
    [][(last'.op = "permission_request" /\ pendingPermission # NoPermission)
       => /\ pendingPermission'.requestId = pendingPermission.requestId
          /\ pendingPermission'.title = pendingPermission.title
          /\ pendingPermission'.ws = pendingPermission.ws]_vars

(* C14: once the close event of a transport has been processed, no permission
   request delivered by that transport is displayed. *)
C14_PermissionDiesWithConnection ==
    pendingPermission # NoPermission
    => ~(/\ wsObjs[pendingPermission.ws].readyState = CLOSED
         /\ ~wsObjs[pendingPermission.ws].closeQueued)

(* session id was created and is no longer in the list *)
Removed(id) == id \in 1 .. nextSession /\ ~HasSession(sessions, id)

(* C15: removing a session closes its registered transport; a removed session
   is never in the list again; and a removed session has no transport that is
   opening or open. *)
C15_RemovedSessionStaysClosed ==
    [][\A id \in SessionIds :
          /\ (last'.op = "delete_session" /\ last'.sid = id /\ sockets[id] # NoWs)
             => wsObjs'[sockets[id]].readyState \in {CLOSING, CLOSED}
          /\ Removed(id) => ~HasSession(sessions', id)
          /\ Removed(id)'
             => \A w \in WsIds :
                   wsObjs'[w].owner = id
                   => wsObjs'[w].readyState \notin {CONNECTING, OPEN}]_vars

(* C16: after every step the persisted list is the session list; a reload
   yields the persisted list with the same ids, order, messages and other
   fields, every status being disconnected. *)
C16_PersistAndReload ==
    [][/\ storage'.present /\ storage'.list = sessions'
       /\ last'.op = "reload"
          => /\ Len(sessions') = Len(storage.list)
             /\ \A i \in 1 .. Len(storage.list) :
                   /\ sessions'[i].id = storage.list[i].id
                   /\ sessions'[i].messages = storage.list[i].messages
                   /\ sessions'[i].sessionId = storage.list[i].sessionId
                   /\ sessions'[i].agentInfo = storage.list[i].agentInfo
                   /\ sessions'[i].status = "disconnected"]_vars

C16_Witness ==
    /\ last.op = "reload"
    /\ reloads = 1
    /\ \E i \in 1 .. Len(sessions) :
          /\ sessions[i].sessionId # None
          /\ sessions[i].messages # <<>>
          /\ sessions[i].status = "disconnected"

(* C17: every transport that is opening or open is the registered transport
   of its session, hence at most one live transport per session id. *)
C17_OneLiveTransport ==
    \A w \in WsIds :
        wsObjs[w].readyState \in {CONNECTING, OPEN}
        => sockets[wsObjs[w].owner] = w

(* C18: an error event sets the session's status to error; a close event
   sets it to disconnected, leaves the transport CLOSED and the session
   without a registered transport; a transport starts opening only in a
   step that is a connect call. *)
C18_ErrorCloseNoReconnect ==
    [][/\ (last'.op = "ws_error" /\ HasSession(sessions, last'.sid))
          => FindSession(sessions', last'.sid).status = "error"
       /\ last'.op = "ws_close"
          => /\ sockets'[last'.sid] = NoWs
             /\ wsObjs'[last'.ws].readyState = CLOSED
             /\ HasSession(sessions, last'.sid)
                => FindSession(sessions', last'.sid).status = "disconnected"
       /\ (\E w \in WsIds : /\ wsObjs'[w].readyState = CONNECTING
                            /\ wsObjs[w].readyState # CONNECTING)
          => last'.op = "connect"]_vars

C18_Witness ==
    /\ last.op = "ws_error"
    /\ HasSession(sessions, last.sid)
    /\ FindSession(sessions, last.sid).status = "error"
    /\ sockets[last.sid] # NoWs
    /\ wsObjs[sockets[last.sid]].closeQueued
    /\ \A w \in WsIds : wsObjs[w].readyState \notin {CONNECTING, OPEN}

(* C20: a session_update frame made of thinking_start updates only, received
   while the session has a streaming handle whose assistant message is in
   the list, leaves the session list and both handles unchanged. *)
C20_ThinkingStartWhileStreaming ==
    [][(/\ last'.op = "session_update"
        /\ OnlyThinkingStart(last'.us)
        /\ streamingIds[last'.sid] # NoId
        /\ \E k \in DOMAIN MessagesOf(sessions, last'.sid) :
              MessagesOf(sessions, last'.sid)[k].id = streamingIds[last'.sid])
       => /\ sessions' = sessions
          /\ thinkingIds' = thinkingIds
          /\ streamingIds' = streamingIds]_vars

(* the session is connected over an open registered transport *)
Goal(id) ==
    /\ HasSession(sessions, id)
    /\ FindSession(sessions, id).status = "connected"
    /\ sockets[id] # NoWs
    /\ wsObjs[sockets[id]].readyState = OPEN

(* the remote side confirms on the session's registered transport *)
Confirm(id) ==
    /\ sockets[id] # NoWs
    /\ \E a \in AgentInfos : OnStatus(sockets[id], TRUE, a)

(* the close event of a transport that ws.close() or an error has closed *)
CloseEvent(w) == wsObjs[w].readyState # OPEN /\ WsClose(w)

(* the user keeps using the sidebar's Disconnect and Reconnect entries, the
   browser delivers the timer, open and close events it owes, and the remote
   side confirms every connection that stays open *)
RecoverFair ==
    /\ \A id \in SessionIds :
          /\ SF_vars(HandleDisconnect(id))
          /\ SF_vars(HandleConnect(id))
          /\ SF_vars(TimerFire(id))
          /\ SF_vars(Confirm(id))
    /\ \A w \in WsIds : SF_vars(WsOpen(w)) /\ SF_vars(CloseEvent(w))

SpecRecover == Init /\ [][NextConn]_vars /\ RecoverFair

(* C19: from every state in which a session is listed, manual disconnects
   and connects, with the remote side confirming, lead to a state in which
   the session is connected over an open registered transport (or the
   session has been removed). *)
C19_Recoverable ==
    \A id \in SessionIds :
        HasSession(sessions, id) ~> (Goal(id) \/ ~HasSession(sessions, id))

(* the three logical states of the aggregator of session id, read from the
   two handle maps: Streaming has a streaming handle, Thinking a thinking
   handle and no text yet, Idle neither *)
AggStreaming(id) == streamingIds[id] # NoId

AggThinking(id) == thinkingIds[id] # NoId /\ streamingIds[id] = NoId

AggIdle(id) == thinkingIds[id] = NoId /\ streamingIds[id] = NoId

(* a frame carrying exactly one text update with non-empty text *)
OneDelta(us) ==
    /\ Len(us) = 1
    /\ us[1].type \in {"text_delta", "text"}
    /\ UpdateText(us[1]) # ""

(* C21: one non-empty text delta received while Thinking removes the
   placeholder and appends a new assistant message whose content is the
   delta, leaving the aggregator Streaming on it; received while Idle it
   appends that message and keeps every existing message. *)
C21_DeltaStartsMessage ==
    [][(/\ last'.op = "session_update"
        /\ OneDelta(last'.us)
        /\ HasSession(sessions, last'.sid)
        /\ ~AggStreaming(last'.sid))
       => LET id   == last'.sid
              ms   == MessagesOf(sessions, id)
              ns   == MessagesOf(sessions', id)
              Kept(m) == m.id # thinkingIds[id]
              kept == IF AggThinking(id) THEN SelectSeq(ms, Kept) ELSE ms
          IN  /\ Len(ns) = Len(kept) + 1
              /\ SubSeq(ns, 1, Len(kept)) = kept
              /\ ns[Len(ns)].role = "assistant"
              /\ ns[Len(ns)].content = <<UpdateText(last'.us[1])>>
              /\ ~ns[Len(ns)].isThinking
              /\ streamingIds'[id] = ns[Len(ns)].id
              /\ thinkingIds'[id] = NoId
              /\ \A j \in DOMAIN kept : kept[j].id # ns[Len(ns)].id]_vars

C21_Witness ==
    /\ last.op = "session_update"
    /\ OneDelta(last.us)
    /\ turn.sid = last.sid
    /\ turn.think
    /\ turn.acc = <<UpdateText(last.us[1])>>
    /\ MessagesOf(sessions, last.sid) # <<>>
    /\ ~HasThinking(MessagesOf(sessions, last.sid))
    /\ AggStreaming(last.sid)
    /\ thinkingIds[last.sid] = NoId

(* the message the streaming handle of session id refers to is in the list *)
StreamingShown(id) ==
    \E j \in DOMAIN MessagesOf(sessions, id) :
        MessagesOf(sessions, id)[j].id = streamingIds[id]

(* C22: one non-empty text delta received while Streaming keeps the number,
   the ids and the positions of the messages, appends the delta to the
   content of the streaming message and changes no other message. *)
C22_DeltaAppendsInPlace ==
    [][(/\ last'.op = "session_update"
        /\ OneDelta(last'.us)
        /\ AggStreaming(last'.sid)
        /\ StreamingShown(last'.sid))
       => LET id == last'.sid
              ms == MessagesOf(sessions, id)
              ns == MessagesOf(sessions', id)
          IN  /\ Len(ns) = Len(ms)
              /\ \A j \in DOMAIN ms :
                    IF ms[j].id = streamingIds[id]
                    THEN ns[j] = [ms[j] EXCEPT !.content =
                                     Append(ms[j].content, UpdateText(last'.us[1]))]
                    ELSE ns[j] = ms[j]
              /\ streamingIds' = streamingIds]_vars

(* a frame whose updates are all text updates without text *)
OnlyEmptyDeltas(us) ==
    /\ us # <<>>
    /\ \A k \in DOMAIN us :
          us[k].type \in {"text_delta", "text"} /\ UpdateText(us[k]) = ""

(* C23: a session_update frame made of text updates with empty text changes
   nothing, whatever the state of the aggregator. *)
C23_EmptyDeltaNoOp ==
    [][(last'.op = "session_update" /\ OnlyEmptyDeltas(last'.us))
       => NoEffect]_vars

C23_Witness ==
    /\ last.op = "session_update"
    /\ OnlyEmptyDeltas(last.us)
    /\ AggThinking(last.sid)
    /\ HasThinking(MessagesOf(sessions, last.sid))

(* C24: prompt_complete removes the message of the thinking handle, if any,
   and nothing else, and leaves the session without handles; a non-empty
   text delta received without a streaming handle leaves every message
   other than the placeholder as it was, the completed one included. *)
C24_PromptComplete ==
    [][/\ last'.op = "prompt_complete"
          => LET id == last'.sid
                 Kept(m) == m.id # thinkingIds[id]
             IN  /\ MessagesOf(sessions', id) = SelectSeq(MessagesOf(sessions, id), Kept)
                 /\ thinkingIds'[id] = NoId
                 /\ streamingIds'[id] = NoId
                 /\ \A i \in DOMAIN sessions :
                       sessions[i].id # id => sessions'[i] = sessions[i]
       /\ (/\ last'.op = "session_update"
           /\ OneDelta(last'.us)
           /\ ~AggStreaming(last'.sid))
          => LET id == last'.sid
                 ms == MessagesOf(sessions, id)
                 ns == MessagesOf(sessions', id)
             IN  \A j \in DOMAIN ms :
                    ms[j].id # thinkingIds[id]
                    => \E k \in DOMAIN ns : ns[k] = ms[j]]_vars

C24_Witness ==
    /\ last.op = "session_update"
    /\ OneDelta(last.us)
    /\ reloads = 0
    /\ LET ms == MessagesOf(sessions, last.sid) IN
       /\ Len(ms) = 2
       /\ ms[1].role = "assistant" /\ ~ms[1].isThinking /\ ms[1].content = <<"a">>
       /\ ms[2].role = "assistant" /\ ~ms[2].isThinking /\ ms[2].content = <<"b">>
       /\ streamingIds[last.sid] = ms[2].id

(* C25: once a connection of a session has closed, the session's aggregator
   is neither Thinking nor Streaming: both handles are empty after the close
   event. *)
C25_CloseFinalizesTurn ==
    [][last'.op = "ws_close"
       => /\ thinkingIds'[last'.sid] = NoId
          /\ streamingIds'[last'.sid] = NoId]_vars

(* n session_update frames, the k-th carrying the single update us[k] *)
RECURSIVE FrameByFrame(_, _, _)
FrameByFrame(st, id, us) ==
    IF us = <<>> THEN st
    ELSE FrameByFrame(HandleUpdates(st, id, <<Head(us)>>), id, Tail(us))

(* C26: a session_update frame leaves the session list and the handles as
   the frames carrying its updates one by one, in array order, leave them. *)
C26_ArrayOrder ==
    [][last'.op = "session_update"
       => LET r == FrameByFrame(AggState, last'.sid, last'.us)
          IN  /\ sessions' = r.sessions
              /\ thinkingIds' = r.thinkingIds
              /\ streamingIds' = r.streamingIds]_vars

C26_Witness ==
    /\ last.op = "session_update"
    /\ Len(last.us) = 2
    /\ last.us[1].type = "thinking_start"
    /\ OneDelta(<<last.us[2]>>)
    /\ Len(MessagesOf(sessions, last.sid)) = 1
    /\ ~HasThinking(MessagesOf(sessions, last.sid))
    /\ AggStreaming(last.sid)
    /\ thinkingIds[last.sid] = NoId

(* C27: resolving the displayed request, with allow or with deny, leaves the
   toolResult.status of every message other than the tool message appended
   for that request as it was, in every session. *)
C27_ResolveOnlyMatching ==
    [][last'.op \in {"allow", "deny"}
       => /\ Len(sessions') = Len(sessions)
          /\ \A i \in DOMAIN sessions :
                /\ Len(sessions'[i].messages) = Len(sessions[i].messages)
                /\ \A j \in DOMAIN sessions[i].messages :
                      sessions[i].messages[j].id # pendingPermission.msg
                      => sessions'[i].messages[j].status
                            = sessions[i].messages[j].status]_vars

(* C28: when the transport that delivered the displayed request is closing
   or closed, resolving it delivers no frame, sets the status of the tool
   message appended for it to allowed or denied, and clears the display. *)
C28_ResolveAfterClose ==
    [][(/\ last'.op \in {"allow", "deny"}
        /\ wsObjs[pendingPermission.ws].readyState \in {CLOSING, CLOSED})
       => /\ \A k \in DOMAIN sent' : ~sent'[k].live
          /\ pendingPermission' = NoPermission
          /\ \A i \in DOMAIN sessions : \A j \in DOMAIN sessions[i].messages :
                sessions[i].messages[j].id = pendingPermission.msg
                => sessions'[i].messages[j].status
                      = IF last'.op = "allow" THEN "allowed" ELSE "denied"]_vars

(* C29: an error frame appends one system message describing the error to
   the receiving session and changes nothing else: status, sessionId and
   the other fields of that session, the other sessions, the transports,
   the handles; nothing is sent. *)
C29_ErrorFrame ==
    [][(last'.op = "error_frame" /\ HasSession(sessions, last'.sid))
       => LET id == last'.sid
              ms == MessagesOf(sessions, id)
              ns == MessagesOf(sessions', id)
          IN  /\ Len(ns) = Len(ms) + 1
              /\ SubSeq(ns, 1, Len(ms)) = ms
              /\ ns[Len(ns)].role = "system"
              /\ ns[Len(ns)].content = <<"Error: ", "boom">>
              /\ sessions = SetSession(sessions', id, [messages |-> ms])
              /\ sockets' = sockets
              /\ wsObjs' = wsObjs
              /\ thinkingIds' = thinkingIds
              /\ streamingIds' = streamingIds
              /\ pendingPermission' = pendingPermission
              /\ sent' = <<>>]_vars

C29_Witness ==
    /\ last.op = "error_frame"
    /\ HasSession(sessions, last.sid)
    /\ FindSession(sessions, last.sid).status = "connected"
    /\ FindSession(sessions, last.sid).sessionId # None
    /\ AggStreaming(last.sid)
    /\ LET ms == MessagesOf(sessions, last.sid) IN
       Len(ms) = 2 /\ ms[1].id = streamingIds[last.sid] /\ ms[2].role = "system"

StatusOf(ss, id) == IF HasSession(ss, id) THEN FindSession(ss, id).status ELSE None

(* C30: a connect call that opens a transport leaves the session with
   status connecting; a session's status becomes connected only in the
   step of a status frame with connected = TRUE for that session; the open
   event leaves the session list as it is. *)
C30_ConnectingThenConnected ==
    [][/\ (last'.op = "connect" /\ last'.ok /\ HasSession(sessions, last'.sid))
          => StatusOf(sessions', last'.sid) = "connecting"
       /\ \A id \in SessionIds :
             (StatusOf(sessions', id) = "connected" /\ StatusOf(sessions, id) # "connected")
             => last'.op = "status" /\ last'.ok /\ last'.sid = id
       /\ last'.op = "open" => sessions' = sessions]_vars

C30_Witness ==
    /\ last.op = "open"
    /\ StatusOf(sessions, last.sid) = "connecting"
    /\ sockets[last.sid] # NoWs
    /\ wsObjs[sockets[last.sid]].readyState = OPEN

(* C31: handleSendPrompt appends the user's message to the active session
   whether the prompt frame was sent or not, and changes nothing else: the
   other fields of the session, the other sessions, the transports. *)
C31_OptimisticPrompt ==
    [][last'.op = "send_prompt"
       => LET id == last'.sid
              ms == MessagesOf(sessions, id)
              ns == MessagesOf(sessions', id)
          IN  /\ id = activeId
              /\ Len(ns) = Len(ms) + 1
              /\ SubSeq(ns, 1, Len(ms)) = ms
              /\ ns[Len(ns)].role = "user"
              /\ ns[Len(ns)].content = <<"u">>
              /\ sessions = SetSession(sessions', id, [messages |-> ms])
              /\ sockets' = sockets
              /\ wsObjs' = wsObjs
              /\ ~last'.ok => sent' = <<>>]_vars

C31_Witness ==
    /\ last.op = "send_prompt"
    /\ ~last.ok
    /\ sent = <<>>
    /\ LET ms == MessagesOf(sessions, last.sid) IN
       ms # <<>> /\ ms[Len(ms)].role = "user"

(* the handlers of inbound frames and of the connection lifecycle *)
InboundOrLifecycle ==
    {"status", "session_created", "session_update", "permission_request",
     "prompt_complete", "error_frame", "unknown_frame", "parse_error",
     "connect", "disconnect", "open", "ws_error", "ws_close"}

(* what identifies a message of a list: its id, role and placeholder flag *)
RECURSIVE MessageKeys(_)
MessageKeys(ms) ==
    IF ms = <<>> THEN <<>>
    ELSE <<[id |-> Head(ms).id, role |-> Head(ms).role,
            isThinking |-> Head(ms).isThinking]>> \o MessageKeys(Tail(ms))

KeySet(ms) == {MessageKeys(ms)[j] : j \in DOMAIN ms}

(* C32: a step of an inbound frame or of connect, disconnect, open, error
   or close removes no session, removes no message without isThinking, and
   keeps the messages without isThinking in the order they had. *)
C32_AppendOnly ==
    [][last'.op \in InboundOrLifecycle
       => /\ Len(sessions') = Len(sessions)
          /\ \A i \in DOMAIN sessions :
                LET ms == sessions[i].messages
                    ns == sessions'[i].messages
                    Remains(k) == ~k.isThinking /\ k \in KeySet(ms) /\ k \in KeySet(ns)
                IN  /\ sessions'[i].id = sessions[i].id
                    /\ \A j \in DOMAIN ms :
                          ~ms[j].isThinking => MessageKeys(ms)[j] \in KeySet(ns)
                    /\ SelectSeq(MessageKeys(ms), Remains)
                          = SelectSeq(MessageKeys(ns), Remains)]_vars

C32_Witness ==
    /\ last.op = "session_update"
    /\ turn.sid = last.sid
    /\ turn.think
    /\ turn.base # <<>>
    /\ turn.acc # <<>>
    /\ LET ms == MessagesOf(sessions, last.sid) IN
       /\ Len(ms) = Len(turn.base) + 1
       /\ SubSeq(ms, 1, Len(turn.base)) = turn.base
       /\ ~HasThinking(ms)

(* C33: the close event of a transport that another transport has replaced
   in the map leaves the map entry, the status and the sessionId of the
   session as they were. *)
C33_SupersededClose ==
    [][(/\ last'.op = "ws_close"
        /\ sockets[last'.sid] # NoWs
        /\ sockets[last'.sid] # last'.ws)
       => /\ sockets'[last'.sid] = sockets[last'.sid]
          /\ HasSession(sessions, last'.sid)
             => /\ StatusOf(sessions', last'.sid) = StatusOf(sessions, last'.sid)
                /\ FindSession(sessions', last'.sid).sessionId
                      = FindSession(sessions, last'.sid).sessionId]_vars

(* C34: in every reachable state a session with status connected has a
   registered transport that is OPEN. *)
C34_ConnectedIsOpen ==
    \A i \in DOMAIN sessions :
        sessions[i].status = "connected"
        => IsOpen(sockets, wsObjs, sessions[i].id)

(* C35: in every reachable state each transport that is in the map or is
   opening or open belongs to a session of the list. *)
C35_TransportHasSession ==
    \A w \in WsIds :
        (\/ wsObjs[w].readyState \in {CONNECTING, OPEN}
         \/ \E id \in SessionIds : sockets[id] = w)
        => HasSession(sessions, wsObjs[w].owner)

(* C36: whenever a listed session has a streaming handle, the handle is the
   id of an assistant message of the session's list; and after a frame of
   one non-empty text delta some assistant message of the session ends with
   that delta. *)
C36_StreamingTargetPresent ==
    [][/\ \A i \in DOMAIN sessions' :
             streamingIds'[sessions'[i].id] # NoId
             => \E j \in DOMAIN sessions'[i].messages :
                   /\ sessions'[i].messages[j].id = streamingIds'[sessions'[i].id]
                   /\ sessions'[i].messages[j].role = "assistant"
       /\ (/\ last'.op = "session_update"
           /\ OneDelta(last'.us)
           /\ HasSession(sessions, last'.sid))
          => \E j \in DOMAIN MessagesOf(sessions', last'.sid) :
                LET m == MessagesOf(sessions', last'.sid)[j] IN
                /\ m.role = "assistant"
                /\ m.content # <<>>
                /\ m.content[Len(m.content)] = UpdateText(last'.us[1])]_vars

(* C37: in every reachable state a listed session has a thinking handle if
   and only if its list holds a message with isThinking, and every such
   message has the handle as its id. *)
C37_HandleMatchesPlaceholder ==
    \A i \in DOMAIN sessions :
        LET id == sessions[i].id
            ms == sessions[i].messages
        IN  /\ thinkingIds[id] # NoId <=> HasThinking(ms)
            /\ \A j \in DOMAIN ms : ms[j].isThinking => ms[j].id = thinkingIds[id]

(* the steps that run on an event of one transport *)
TransportEvents ==
    {"status", "session_created", "session_update", "permission_request",
     "prompt_complete", "error_frame", "unknown_frame", "parse_error",
     "open", "ws_error", "ws_close"}

(* C38: a step on an event of a transport of session A leaves the record
   and the handles of every other session as they were. *)
C38_SessionsIsolated ==
    [][last'.op \in TransportEvents
       => /\ Len(sessions') = Len(sessions)
          /\ \A i \in DOMAIN sessions :
                sessions[i].id # last'.sid => sessions'[i] = sessions[i]
          /\ \A id \in SessionIds :
                id # last'.sid
                => /\ thinkingIds'[id] = thinkingIds[id]
                   /\ streamingIds'[id] = streamingIds[id]
                   /\ sockets'[id] = sockets[id]]_vars

C38_Witness ==
    /\ last.op = "session_update"
    /\ last.us # <<>>
    /\ \E a \in SessionIds :
          /\ a # last.sid
          /\ StatusOf(sessions, a) = "connected"
          /\ AggStreaming(a)
          /\ StreamingShown(a)
    /\ MessagesOf(sessions, last.sid) # <<>>
    /\ AggStreaming(last.sid)

(* the frames of SpecPayload whose handler throws *)
FailedFrames ==
    {"status_no_payload", "session_update_no_payload",
     "permission_request_no_payload", "session_update_null_item"}

(* C39: handling an inbound frame is all-or-nothing: a frame that parses but
   whose payload is missing or malformed, so that its handler throws, leaves
   the session list, the displayed permission request and the thinking and
   streaming handles as they were; a permission_request without payload in
   particular sets no displayed request and appends no message *)
C39_FrameAllOrNothing ==
    [][last'.op \in FailedFrames
       => /\ sessions' = sessions
          /\ pendingPermission' = pendingPermission
          /\ thinkingIds' = thinkingIds
          /\ streamingIds' = streamingIds]_vars

(* C40: a prompt frame is handed to a transport only for a session whose
   remote handshake has completed: at every send_prompt step that sends,
   the session's status is connected and its remoteSessionId is defined *)
C40_PromptAfterHandshake ==
    [][(last'.op = "send_prompt" /\ last'.ok)
       => /\ HasSession(sessions, activeId)
          /\ StatusOf(sessions, activeId) = "connected"
          /\ FindSession(sessions, activeId).sessionId # None]_vars


====
